---- MODULE Spec2Model ----
(***************************************************************************)
(* Run Orchestrator of zapply: the advisory scraper lock, the stale-run    *)
(* Reaper and the two entry points of the ingestion pipeline               *)
(* (app/services/scraper_service.py, app/routers/scraper.py).              *)
(*                                                                         *)
(* Every orchestrator invocation owns one database session, which is one  *)
(* PostgreSQL backend; an action is one awaited database round trip (or a  *)
(* run of statements between two awaits).  pg_terminate_backend followed   *)
(* by the 0.1 s sleep is taken to have released the victim's lock by the   *)
(* time of the retry.                                                      *)
(*                                                                         *)
(* Spec follows several invocations racing for the lock; SpecPipe follows  *)
(* one pipeline in detail: its concurrent scrape tasks (each on its own    *)
(* session), the sequential save pass, matching and finalization.          *)
(***************************************************************************)
EXTENDS Integers, Sequences, FiniteSets, TLC

\* ---- bounds of the model ----
NumProcs == 3          \* orchestrator invocations (sessions)
MaxTime == 60          \* the clock stops here (minutes)
TickStep == 30         \* minutes per clock step
MaxCrashes == 1        \* processes that may die mid-pipeline

\* ---- program constants ----
STALE_RUN_TIMEOUT_MINUTES == 30

Procs == 1..NumProcs
NoProc == 0
NULL == -1             \* a NULL timestamp
NoError == "none"      \* a NULL error_message

VARIABLES
  now,          \* wall clock, minutes
  runs,         \* the runs table: sequence of Run rows, id = index
  lockHolders,  \* sessions holding advisory lock SCRAPER_LOCK_ID
  sessAlive,    \* sessAlive[p]: the backend of p's session has not been terminated
  hasProfile,   \* a UserProfile row exists
  numEnabled,   \* number of enabled ScraperSource rows
  pc,           \* pc[p]: position of invocation p
  path,         \* path[p]: "none" | "sched" | "manual"
  reaped,       \* reaped[p]: value returned by cleanup_stale_runs, NULL before
  acq,          \* acq[p]: "none" | "true" | "false", result of acquire_scraper_lock
  tries,        \* tries[p]: pg_try_advisory_lock calls made by p
  sawRunning,   \* sawRunning[p]: "none" | "yes" | "no", result of the stale check
  killed,       \* killed[p]: session p terminated, NoProc if none
  myRun,        \* myRun[p]: id of the Run p works on, 0 if none
  launched,     \* launched[p]: p launched its scrape tasks
  unlocked,     \* unlocked[p]: p called release_scraper_lock
  outcome,      \* outcome[p]: what the invocation gave its caller
  crashes,      \* processes that died so far
  retry_count,  \* retry_count[p]: argument of the current call of run_scheduled_pipeline
  \* -- one pipeline in detail (specification SpecPipe) --
  sources,      \* the enabled ScraperSource rows, in priority order
  jobs,         \* the jobs table: sequence of Job rows
  tpc,          \* tpc[s]: position of the scrape task of source s
  srcRuns,      \* srcRuns[s]: the SourceRun row of source s in this Run
  results,      \* results[s]: the ScrapeResult returned by the task of s
  runLog,       \* Run.logs as persisted
  sessLog,      \* sessLog[x]: Run.logs as held by session x (orchestrator or task)
  runStats,     \* the stats dict of _execute_scraping and whether Run.stats holds it
  matchCalls,   \* calls of match_jobs
  doneOrder     \* the sources in the order their scrape tasks finished

vars == <<now, runs, lockHolders, sessAlive, hasProfile, numEnabled, retry_count, pc, path,
          reaped, acq, tries, sawRunning, killed, myRun, launched, unlocked,
          outcome, crashes,
          sources, jobs, tpc, srcRuns, results, runLog, sessLog, runStats, matchCalls, doneOrder>>

pipeVars == <<sources, jobs, tpc, srcRuns, results, runLog, sessLog, runStats, matchCalls, doneOrder>>

procVars == <<pc, path, reaped, acq, tries, sawRunning, killed, myRun,
              launched, unlocked, outcome>>

\* ---- helpers ----
RunIds == DOMAIN runs

RunningRuns == {r \in RunIds : runs[r].status = "running"}

\* Run(status=RUNNING, phase=SCRAPING, started_at=now)
NewRun(trigger) ==
  [status |-> "running", phase |-> "scraping", trigger_type |-> trigger,
   started_at |-> now, completed_at |-> NULL, error_message |-> NoError]

\* mutant: a run exactly as old as the timeout counts as stale
IsStaleInclusive(r) ==
  /\ runs[r].status = "running"
  /\ runs[r].started_at <= now - STALE_RUN_TIMEOUT_MINUTES

\* WHERE status = 'running' AND started_at < cutoff_time
IsStale(r) ==
  /\ runs[r].status = "running"
  /\ runs[r].started_at < now - STALE_RUN_TIMEOUT_MINUTES

StaleIds == {r \in RunIds : IsStale(r)}

\* ---- one pipeline in detail: values and rows ----
MaxPostings == 3       \* bound: postings one adapter returns

Orch == 1              \* the invocation whose pipeline is followed in detail
SourceNames == {"A", "B"}
Sessions == {"orch"} \cup SourceNames
NoUrl == "none"        \* a posting without resolved_url

\* the enabled sources a run can find, ordered by priority
SourceLists == {<<>>, <<"A">>, <<"A", "B">>}

\* a posting dict returned by an adapter; valid: it carries every key Job(...) reads
\* (an invalid one lacks a key other than the title, which the duplicate message reads)
Posting(id, url, ok) == [source_id |-> id, resolved_url |-> url, valid |-> ok]

PostingPool ==
  {Posting("j1", "u1", TRUE), Posting("j2", NoUrl, TRUE),
   Posting("j3", "u2", TRUE), Posting("j4", "u2", FALSE)}

\* what scraper.scrape may return: every list of at most MaxPostings postings
AdapterOutputs == UNION {[1..n -> PostingPool] : n \in 0..MaxPostings}

\* a row of the jobs table
JobRow(src, id, url) == [source |-> src, source_id |-> id, resolved_url |-> url]

\* the jobs table when the run starts
InitialStores == {<<>>, <<JobRow("A", "j1", "u1"), JobRow("B", "j2", NoUrl)>>}

\* no SourceRun row yet; rows: the source_runs rows of this Run and this source
NoSourceRun ==
  [status |-> "absent", error_message |-> NoError, jobs_found |-> 0, jobs_new |-> 0,
   jobs_duplicate |-> 0, jobs_failed |-> 0, completed_at |-> NULL, log |-> <<>>,
   rows |-> 0]

\* ScrapeResult(source_run_id=0), success defaults to True; done: the task returned
NoResult ==
  [done |-> FALSE, success |-> TRUE, jobs_data |-> <<>>, jobs_found |-> 0,
   error |-> NoError]

\* stats = {"total": 0, "new": 0, ...}; returned: the save pass returned;
\* persisted: the dict was written to Run.stats; matched: match_jobs returned
NoStats ==
  [returned |-> FALSE, persisted |-> FALSE, matched |-> FALSE, total |-> 0,
   new |-> 0, duplicate |-> 0, failed |-> 0, sources_run |-> 0, sources_failed |-> 0]

\* no pipeline is looked at in detail
PipeIdle ==
  /\ sources = <<>>
  /\ jobs = <<>>
  /\ tpc = [s \in SourceNames |-> "none"]
  /\ srcRuns = [s \in SourceNames |-> NoSourceRun]
  /\ results = [s \in SourceNames |-> NoResult]
  /\ runLog = <<>>
  /\ sessLog = [x \in Sessions |-> <<>>]
  /\ runStats = NoStats
  /\ matchCalls = 0
  /\ doneOrder = <<>>

Init ==
  /\ PipeIdle
  /\ now = 0
  /\ runs = <<>>
  /\ lockHolders = {}
  /\ sessAlive = [p \in Procs |-> TRUE]
  /\ hasProfile \in BOOLEAN
  /\ retry_count = [p \in Procs |-> 0]
  /\ numEnabled \in 0..1
  /\ pc = [p \in Procs |-> "idle"]
  /\ path = [p \in Procs |-> "none"]
  /\ reaped = [p \in Procs |-> NULL]
  /\ acq = [p \in Procs |-> "none"]
  /\ tries = [p \in Procs |-> 0]
  /\ sawRunning = [p \in Procs |-> "none"]
  /\ killed = [p \in Procs |-> NoProc]
  /\ myRun = [p \in Procs |-> 0]
  /\ launched = [p \in Procs |-> FALSE]
  /\ unlocked = [p \in Procs |-> FALSE]
  /\ outcome = [p \in Procs |-> "none"]
  /\ crashes = 0

\* ---- the clock ----
Tick ==
  /\ now + TickStep <= MaxTime
  /\ now' = now + TickStep
  /\ UNCHANGED <<runs, lockHolders, sessAlive, hasProfile, numEnabled, retry_count, procVars, crashes>>
  /\ UNCHANGED pipeVars

\* ---- cleanup_stale_runs: UPDATE runs SET ... WHERE stale RETURNING id ----
\* mutant: the UPDATE also moves the reaped Runs to the reporting phase
ReapedRunsWithPhase ==
  [r \in RunIds |->
     IF IsStale(r)
       THEN [runs[r] EXCEPT !.status = "failed",
                            !.phase = "reporting",
                            !.completed_at = now,
                            !.error_message = "timeout"]
       ELSE runs[r]]

ReapedRuns ==
  [r \in RunIds |->
     IF IsStale(r)
       THEN [runs[r] EXCEPT !.status = "failed",
                            !.completed_at = now,
                            !.error_message = "timeout"]
       ELSE runs[r]]

\* scrape_and_save_jobs, STEP 1
CleanupStaleRuns(p) ==
  /\ pc[p] = "idle"
  /\ path' = [path EXCEPT ![p] = "sched"]
  /\ runs' = ReapedRuns
  /\ reaped' = [reaped EXCEPT ![p] = Cardinality(StaleIds)]
  /\ pc' = [pc EXCEPT ![p] = "acq_try"]
  /\ UNCHANGED <<now, lockHolders, sessAlive, hasProfile, numEnabled, retry_count, acq, tries,
                 sawRunning, killed, myRun, launched, unlocked, outcome, crashes>>
  /\ UNCHANGED pipeVars

\* ---- acquire_scraper_lock ----
\* mutant: the lock is granted whoever holds it
TryAdvisoryLockAlways(p) == TRUE

\* SELECT pg_try_advisory_lock(SCRAPER_LOCK_ID): granted unless another session holds it
TryAdvisoryLock(p) == lockHolders \subseteq {p}

\* mutant: the refusal is raised inside the try block, so the finally releases
RefuseStartInTry(p) ==
  /\ acq' = [acq EXCEPT ![p] = "false"]
  /\ outcome' = [outcome EXCEPT ![p] = "lock_refused"]
  /\ pc' = [pc EXCEPT ![p] = "release"]
  /\ UNCHANGED <<runs, lockHolders, sessAlive, myRun, launched, unlocked>>

\* "if not lock_acquired: raise ValueError(...)": nothing but the error reaches the caller
RefuseStart(p) ==
  /\ acq' = [acq EXCEPT ![p] = "false"]
  /\ outcome' = [outcome EXCEPT ![p] = "lock_refused"]
  /\ pc' = [pc EXCEPT ![p] = "raised"]
  /\ UNCHANGED <<runs, lockHolders, sessAlive, myRun, launched, unlocked>>

\* first pg_try_advisory_lock
AcquireTry(p) ==
  /\ pc[p] = "acq_try"
  /\ tries' = [tries EXCEPT ![p] = @ + 1]
  /\ IF TryAdvisoryLock(p)
       THEN /\ lockHolders' = lockHolders \cup {p}
            /\ acq' = [acq EXCEPT ![p] = "true"]
            /\ pc' = [pc EXCEPT ![p] = "dblcheck"]
       ELSE /\ pc' = [pc EXCEPT ![p] = "acq_check"]
            /\ UNCHANGED <<lockHolders, acq>>
  /\ UNCHANGED <<now, runs, sessAlive, hasProfile, numEnabled, retry_count, path, reaped,
                 sawRunning, killed, myRun, launched, unlocked, outcome, crashes>>
  /\ UNCHANGED pipeVars

\* mutant: the holder is terminated whether or not a Run is running
AcquireCheckAlwaysStale(p) ==
  /\ pc[p] = "acq_check"
  /\ sawRunning' = [sawRunning EXCEPT ![p] = IF RunningRuns # {} THEN "yes" ELSE "no"]
  /\ pc' = [pc EXCEPT ![p] = "acq_term"]
  /\ UNCHANGED <<runs, lockHolders, sessAlive, acq, myRun, launched, unlocked, outcome>>
  /\ UNCHANGED <<now, hasProfile, numEnabled, retry_count, path, reaped, tries, killed, crashes>>
  /\ UNCHANGED pipeVars

\* SELECT id FROM runs WHERE status = 'running' LIMIT 1
AcquireCheck(p) ==
  /\ pc[p] = "acq_check"
  /\ IF RunningRuns # {}
       THEN /\ sawRunning' = [sawRunning EXCEPT ![p] = "yes"]
            /\ RefuseStart(p)
       ELSE /\ sawRunning' = [sawRunning EXCEPT ![p] = "no"]
            /\ pc' = [pc EXCEPT ![p] = "acq_term"]
            /\ UNCHANGED <<runs, lockHolders, sessAlive, acq, myRun, launched,
                           unlocked, outcome>>
  /\ UNCHANGED <<now, hasProfile, numEnabled, retry_count, path, reaped, tries, killed, crashes>>
  /\ UNCHANGED pipeVars

\* SELECT pg_terminate_backend(pid) FROM pg_locks WHERE ... objid = lock_id LIMIT 1
AcquireTerminate(p) ==
  /\ pc[p] = "acq_term"
  /\ IF lockHolders = {}
       THEN /\ RefuseStart(p)          \* no row: "Failed to terminate stale lock holder"
            /\ UNCHANGED killed
       ELSE \E q \in lockHolders :
              /\ sessAlive' = [sessAlive EXCEPT ![q] = FALSE]
              /\ lockHolders' = lockHolders \ {q}
              /\ killed' = [killed EXCEPT ![p] = q]
              /\ pc' = [pc EXCEPT ![p] = "acq_retry"]
              /\ UNCHANGED <<runs, acq, myRun, launched, unlocked, outcome>>
  /\ UNCHANGED <<now, hasProfile, numEnabled, retry_count, path, reaped, tries, sawRunning, crashes>>
  /\ UNCHANGED pipeVars

\* mutant: a failed retry is tried again instead of giving up
AcquireRetryLoop(p) ==
  /\ pc[p] = "acq_retry"
  /\ tries' = [tries EXCEPT ![p] = @ + 1]
  /\ IF lockHolders \subseteq {p}
       THEN /\ lockHolders' = lockHolders \cup {p}
            /\ acq' = [acq EXCEPT ![p] = "true"]
            /\ pc' = [pc EXCEPT ![p] = "dblcheck"]
       ELSE UNCHANGED <<lockHolders, acq, pc>>
  /\ UNCHANGED <<runs, sessAlive, myRun, launched, unlocked, outcome>>
  /\ UNCHANGED <<now, hasProfile, numEnabled, retry_count, path, reaped, sawRunning, killed, crashes>>
  /\ UNCHANGED pipeVars

\* second pg_try_advisory_lock, after asyncio.sleep(0.1)
AcquireRetry(p) ==
  /\ pc[p] = "acq_retry"
  /\ tries' = [tries EXCEPT ![p] = @ + 1]
  /\ IF TryAdvisoryLock(p)
       THEN /\ lockHolders' = lockHolders \cup {p}
            /\ acq' = [acq EXCEPT ![p] = "true"]
            /\ pc' = [pc EXCEPT ![p] = "dblcheck"]
            /\ UNCHANGED <<runs, sessAlive, myRun, launched, unlocked, outcome>>
       ELSE RefuseStart(p)
  /\ UNCHANGED <<now, hasProfile, numEnabled, retry_count, path, reaped, sawRunning, killed, crashes>>
  /\ UNCHANGED pipeVars

\* ---- the session of p is gone: every statement on it raises ----
\* (the handler's own commit in _execute_scraping raises too, so no row changes)
ConnectionLost(p) ==
  /\ outcome' = [outcome EXCEPT ![p] = "conn_error"]
  /\ pc' = [pc EXCEPT ![p] = IF path[p] = "sched" THEN "release" ELSE "raised"]
  /\ UNCHANGED <<runs, myRun, launched>>

\* where an invocation goes when _execute_scraping returns or raises
AfterExec(p, ok) ==
  IF path[p] = "sched" THEN "release" ELSE IF ok THEN "returned" ELSE "raised"

\* mutant: the lock holder creates its Run without looking for a running one
DoubleCheckSkipped(p) ==
  /\ pc[p] = "dblcheck"
  /\ IF ~sessAlive[p] THEN ConnectionLost(p)
     ELSE /\ pc' = [pc EXCEPT ![p] = "create"]
          /\ UNCHANGED <<runs, myRun, launched, outcome>>
  /\ UNCHANGED <<now, lockHolders, sessAlive, hasProfile, numEnabled, retry_count, path, reaped,
                 acq, tries, sawRunning, killed, unlocked, crashes>>
  /\ UNCHANGED pipeVars

\* scrape_and_save_jobs, STEP 3: select(Run).where(status == RUNNING)
DoubleCheck(p) ==
  /\ pc[p] = "dblcheck"
  /\ IF ~sessAlive[p] THEN ConnectionLost(p)
     ELSE IF RunningRuns # {}
       THEN /\ outcome' = [outcome EXCEPT ![p] = "already_running"]
            /\ pc' = [pc EXCEPT ![p] = "release"]
            /\ UNCHANGED <<runs, myRun, launched>>
       ELSE /\ pc' = [pc EXCEPT ![p] = "create"]
            /\ UNCHANGED <<runs, myRun, launched, outcome>>
  /\ UNCHANGED <<now, lockHolders, sessAlive, hasProfile, numEnabled, retry_count, path, reaped,
                 acq, tries, sawRunning, killed, unlocked, crashes>>
  /\ UNCHANGED pipeVars

\* scrape_and_save_jobs: db.add(run); commit
CreateRun(p) ==
  /\ pc[p] = "create"
  /\ IF ~sessAlive[p] THEN ConnectionLost(p)
     ELSE /\ runs' = Append(runs, NewRun("scheduled"))
          /\ myRun' = [myRun EXCEPT ![p] = Len(runs) + 1]
          /\ pc' = [pc EXCEPT ![p] = "exec_pre"]
          /\ UNCHANGED <<launched, outcome>>
  /\ UNCHANGED <<now, lockHolders, sessAlive, hasProfile, numEnabled, retry_count, path, reaped,
                 acq, tries, sawRunning, killed, unlocked, crashes>>
  /\ UNCHANGED pipeVars

\* ---- _execute_scraping ----
\* except Exception: run.status = FAILED; completed_at; error_message; commit; raise
FailRun(p, msg) ==
  /\ runs' = [runs EXCEPT ![myRun[p]] =
                [@ EXCEPT !.status = "failed", !.completed_at = now,
                          !.error_message = msg]]
  /\ outcome' = [outcome EXCEPT ![p] = msg]
  /\ pc' = [pc EXCEPT ![p] = AfterExec(p, FALSE)]

\* (manual path: scrape_and_save_jobs_with_run selects the pre-created run first)
\* profile and enabled-sources checks, then the scrape tasks are created
ExecPre(p) ==
  /\ pc[p] = "exec_pre"
  /\ IF ~sessAlive[p] THEN ConnectionLost(p)
     ELSE IF ~hasProfile THEN FailRun(p, "no_profile") /\ UNCHANGED <<myRun, launched>>
     ELSE IF numEnabled = 0 THEN FailRun(p, "no_sources") /\ UNCHANGED <<myRun, launched>>
     ELSE /\ launched' = [launched EXCEPT ![p] = TRUE]
          /\ pc' = [pc EXCEPT ![p] = "scraping"]
          /\ UNCHANGED <<runs, myRun, outcome>>
  /\ UNCHANGED <<now, lockHolders, sessAlive, hasProfile, numEnabled, retry_count, path, reaped,
                 acq, tries, sawRunning, killed, unlocked, crashes>>
  /\ UNCHANGED pipeVars

\* run.status = COMPLETED if sources_failed == 0 else PARTIAL; completed_at; commit
\* (the ORM writes only the attributes it changed: error_message is left as stored)
CompleteRun(p, status) ==
  /\ runs' = [runs EXCEPT ![myRun[p]] =
                [@ EXCEPT !.status = status, !.completed_at = now]]
  /\ outcome' = [outcome EXCEPT ![p] = "ok"]
  /\ pc' = [pc EXCEPT ![p] = AfterExec(p, TRUE)]

\* asyncio.gather returns, then save pass, matching and finalization on the
\* orchestrator's session; an exception escaping them fails the run
SaveAndFinalize(p) ==
  /\ pc[p] = "scraping"
  /\ IF ~sessAlive[p] THEN ConnectionLost(p)
     ELSE /\ \/ \E st \in {"completed", "partial"} : CompleteRun(p, st)
             \/ FailRun(p, "save_error")
          /\ UNCHANGED <<myRun, launched>>
  /\ UNCHANGED <<now, lockHolders, sessAlive, hasProfile, numEnabled, retry_count, path, reaped,
                 acq, tries, sawRunning, killed, unlocked, crashes>>
  /\ UNCHANGED pipeVars

\* ---- release_scraper_lock, in the finally of scrape_and_save_jobs ----
\* mutant: the lock is released on the success path only (no finally)
ReleaseOnSuccessOnly(p) ==
  /\ pc[p] = "release"
  /\ unlocked' = [unlocked EXCEPT ![p] = outcome[p] = "ok"]
  /\ lockHolders' = IF sessAlive[p] /\ outcome[p] = "ok" THEN lockHolders \ {p} ELSE lockHolders
  /\ pc' = [pc EXCEPT ![p] = IF outcome[p] = "ok" THEN "returned" ELSE "raised"]
  /\ UNCHANGED <<now, runs, sessAlive, hasProfile, numEnabled, retry_count, path, reaped, acq,
                 tries, sawRunning, killed, myRun, launched, outcome, crashes>>
  /\ UNCHANGED pipeVars

\* SELECT pg_advisory_unlock(lock_id); a failure is logged, not raised
ReleaseScraperLock(p) ==
  /\ pc[p] = "release"
  /\ unlocked' = [unlocked EXCEPT ![p] = TRUE]
  /\ lockHolders' = IF sessAlive[p] THEN lockHolders \ {p} ELSE lockHolders
  /\ pc' = [pc EXCEPT ![p] = IF outcome[p] = "ok" THEN "returned" ELSE "raised"]
  /\ UNCHANGED <<now, runs, sessAlive, hasProfile, numEnabled, retry_count, path, reaped, acq,
                 tries, sawRunning, killed, myRun, launched, outcome, crashes>>
  /\ UNCHANGED pipeVars

\* ---- the manual path: POST /run ----
\* run_scraper: profile check, HTTP 400 without a profile
ManualProfile(p) ==
  /\ pc[p] = "idle"
  /\ path' = [path EXCEPT ![p] = "manual"]
  /\ IF hasProfile
       THEN /\ pc' = [pc EXCEPT ![p] = "m_check"]
            /\ UNCHANGED outcome
       ELSE /\ pc' = [pc EXCEPT ![p] = "raised"]
            /\ outcome' = [outcome EXCEPT ![p] = "http400"]
  /\ UNCHANGED <<now, runs, lockHolders, sessAlive, hasProfile, numEnabled, retry_count, reaped,
                 acq, tries, sawRunning, killed, myRun, launched, unlocked, crashes>>
  /\ UNCHANGED pipeVars

\* run_scraper: running-run check, HTTP 409 if one exists
ManualCheck(p) ==
  /\ pc[p] = "m_check"
  /\ IF RunningRuns # {}
       THEN /\ pc' = [pc EXCEPT ![p] = "raised"]
            /\ outcome' = [outcome EXCEPT ![p] = "http409"]
       ELSE /\ pc' = [pc EXCEPT ![p] = "m_create"]
            /\ UNCHANGED outcome
  /\ UNCHANGED <<now, runs, lockHolders, sessAlive, hasProfile, numEnabled, retry_count, path,
                 reaped, acq, tries, sawRunning, killed, myRun, launched, unlocked,
                 crashes>>
  /\ UNCHANGED pipeVars

\* run_scraper: create the Run, asyncio.create_task(run_scraper_background(id))
ManualCreate(p) ==
  /\ pc[p] = "m_create"
  /\ runs' = Append(runs, NewRun("manual"))
  /\ myRun' = [myRun EXCEPT ![p] = Len(runs) + 1]
  /\ pc' = [pc EXCEPT ![p] = "exec_pre"]
  /\ UNCHANGED <<now, lockHolders, sessAlive, hasProfile, numEnabled, retry_count, path, reaped,
                 acq, tries, sawRunning, killed, launched, unlocked, outcome, crashes>>
  /\ UNCHANGED pipeVars

\* ---- a process dies mid-pipeline (before its Run exists, or while its scrape
\* tasks are in flight); its backend may linger with the lock, or close ----
InPipeline == {"dblcheck", "scraping"}

Crash(p) ==
  /\ pc[p] \in InPipeline
  /\ crashes < MaxCrashes
  /\ crashes' = crashes + 1
  /\ pc' = [pc EXCEPT ![p] = "crashed"]
  /\ \E lingering \in BOOLEAN :
       lockHolders' = IF lingering THEN lockHolders ELSE lockHolders \ {p}
  /\ UNCHANGED <<now, runs, sessAlive, hasProfile, numEnabled, retry_count, path, reaped, acq,
                 tries, sawRunning, killed, myRun, launched, unlocked, outcome>>
  /\ UNCHANGED pipeVars

Next ==
  \/ Tick
  \/ \E p \in Procs :
       \/ CleanupStaleRuns(p)
       \/ AcquireTry(p)
       \/ AcquireCheck(p)
       \/ AcquireTerminate(p)
       \/ AcquireRetry(p)
       \/ DoubleCheck(p)
       \/ CreateRun(p)
       \/ ExecPre(p)
       \/ SaveAndFinalize(p)
       \/ ReleaseScraperLock(p)
       \/ ManualProfile(p)
       \/ ManualCheck(p)
       \/ ManualCreate(p)
       \/ Crash(p)

Spec == Init /\ [][Next]_vars

TypeOK ==
  /\ now \in 0..MaxTime
  /\ lockHolders \subseteq Procs
  /\ \A r \in RunIds : runs[r].status \in {"running", "completed", "partial", "failed"}

\* =================== after a crash ===================
\* The process of one scheduled invocation died while its scrape tasks were in
\* flight: its Run is left running, and its backend lingers with the lock or has
\* closed. The other processes then make their scheduled attempts.
Dead == 1              \* the process that died

RecoverInit ==
  /\ PipeIdle
  /\ now = 0
  /\ runs = <<NewRun("scheduled")>>
  /\ lockHolders \in {{}, {Dead}}
  /\ sessAlive = [p \in Procs |-> TRUE]
  /\ hasProfile = TRUE
  /\ retry_count = [p \in Procs |-> 0]
  /\ numEnabled = 1
  /\ pc = [p \in Procs |-> IF p = Dead THEN "crashed" ELSE "idle"]
  /\ path = [p \in Procs |-> IF p = Dead THEN "sched" ELSE "none"]
  /\ reaped = [p \in Procs |-> IF p = Dead THEN 0 ELSE NULL]
  /\ acq = [p \in Procs |-> IF p = Dead THEN "true" ELSE "none"]
  /\ tries = [p \in Procs |-> IF p = Dead THEN 1 ELSE 0]
  /\ sawRunning = [p \in Procs |-> "none"]
  /\ killed = [p \in Procs |-> NoProc]
  /\ myRun = [p \in Procs |-> IF p = Dead THEN 1 ELSE 0]
  /\ launched = [p \in Procs |-> p = Dead]
  /\ unlocked = [p \in Procs |-> FALSE]
  /\ outcome = [p \in Procs |-> "none"]
  /\ crashes = 1

RecoverNext ==
  \/ Tick
  \/ \E p \in Procs :
       \/ CleanupStaleRuns(p)
       \/ AcquireTry(p)
       \/ AcquireCheck(p)
       \/ AcquireTerminate(p)
       \/ AcquireRetry(p)
       \/ DoubleCheck(p)
       \/ CreateRun(p)
       \/ ExecPre(p)
       \/ SaveAndFinalize(p)
       \/ ReleaseScraperLock(p)

SpecRecover == RecoverInit /\ [][RecoverNext]_vars

\* =================== one pipeline in detail ===================
\* One invocation of scrape_and_save_jobs is followed from the moment its Run is
\* committed; its scrape tasks run concurrently, each on its own session.

\* variables no step of the detailed pipeline writes
pipeFrame == <<now, lockHolders, sessAlive, hasProfile, numEnabled, retry_count, path, reaped, acq,
               tries, sawRunning, killed, myRun, unlocked, crashes>>

RECURSIVE SeqToSet(_)
SeqToSet(q) == IF q = <<>> THEN {} ELSE {Head(q)} \cup SeqToSet(Tail(q))

\* a log entry: who appended it, what it is about, and the message
Entry(by, about, tag) == <<by, about, tag>>

\* ---- save_jobs_and_finalize_source_runs ----
\* mutant: a new posting is counted but its Job is not added to the session
SaveOneCountOnly(src, jd, st) ==
  IF jd.source_id \in st.ids
    THEN [st EXCEPT !.duplicate = @ + 1]
  ELSE IF jd.resolved_url # NoUrl /\ jd.resolved_url \in (st.urls \cup st.seen)
    THEN [st EXCEPT !.duplicate = @ + 1]
  ELSE [st EXCEPT !.new = @ + 1, !.ids = @ \cup {jd.source_id}]

\* mutant: a posting whose Job cannot be built is dropped without being counted
SaveOneUncountedFailure(src, jd, st) ==
  IF jd.source_id \in st.ids
    THEN [st EXCEPT !.duplicate = @ + 1]
  ELSE IF jd.resolved_url # NoUrl /\ jd.resolved_url \in (st.urls \cup st.seen)
    THEN [st EXCEPT !.duplicate = @ + 1]
  ELSE LET seen1 == IF jd.resolved_url # NoUrl
                      THEN st.seen \cup {jd.resolved_url} ELSE st.seen
       IN IF ~jd.valid
            THEN [st EXCEPT !.seen = seen1]
            ELSE [st EXCEPT
                    !.seen = seen1,
                    !.jobs = Append(@, JobRow(src, jd.source_id, jd.resolved_url)),
                    !.new = @ + 1,
                    !.ids = @ \cup {jd.source_id},
                    !.urls = IF jd.resolved_url # NoUrl
                               THEN @ \cup {jd.resolved_url} ELSE @]

\* mutant: the same-source check is left out
SaveOneNoIdentityCheck(src, jd, st) ==
  IF jd.resolved_url # NoUrl /\ jd.resolved_url \in (st.urls \cup st.seen)
    THEN [st EXCEPT !.duplicate = @ + 1]
  ELSE LET seen1 == IF jd.resolved_url # NoUrl
                      THEN st.seen \cup {jd.resolved_url} ELSE st.seen
       IN IF ~jd.valid
            THEN [st EXCEPT !.seen = seen1, !.failed = @ + 1]
            ELSE [st EXCEPT
                    !.seen = seen1,
                    !.jobs = Append(@, JobRow(src, jd.source_id, jd.resolved_url)),
                    !.new = @ + 1,
                    !.ids = @ \cup {jd.source_id},
                    !.urls = IF jd.resolved_url # NoUrl
                               THEN @ \cup {jd.resolved_url} ELSE @]

\* the body of "for job_data in result.jobs_data"
SaveOne(src, jd, st) ==
  IF jd.source_id \in st.ids
    THEN [st EXCEPT !.duplicate = @ + 1]
  ELSE IF jd.resolved_url # NoUrl /\ jd.resolved_url \in (st.urls \cup st.seen)
    THEN [st EXCEPT !.duplicate = @ + 1]
  ELSE LET seen1 == IF jd.resolved_url # NoUrl
                      THEN st.seen \cup {jd.resolved_url} ELSE st.seen
       IN IF ~jd.valid
            THEN [st EXCEPT !.seen = seen1, !.failed = @ + 1]    \* Job(...) raises
            ELSE [st EXCEPT
                    !.seen = seen1,
                    !.jobs = Append(@, JobRow(src, jd.source_id, jd.resolved_url)),
                    !.new = @ + 1,
                    !.ids = @ \cup {jd.source_id},
                    !.urls = IF jd.resolved_url # NoUrl
                               THEN @ \cup {jd.resolved_url} ELSE @]

\* mutant: the first posting that fails ends the loop over the source's postings
RECURSIVE SaveJobsStopAtFailure(_, _, _)
SaveJobsStopAtFailure(src, data, st) ==
  IF data = <<>> \/ st.failed > 0 THEN st
  ELSE SaveJobsStopAtFailure(src, Tail(data), SaveOne(src, Head(data), st))

RECURSIVE SaveJobs(_, _, _)
SaveJobs(src, data, st) ==
  IF data = <<>> THEN st ELSE SaveJobs(src, Tail(data), SaveOne(src, Head(data), st))

\* mutant: the identities of the source are not loaded
ExistingSourceIdsNone(store, src) == {}

\* select(Job.source_id).filter(Job.source == source_name)
ExistingSourceIds(store, src) ==
  {store[i].source_id : i \in {k \in DOMAIN store : store[k].source = src}}

\* mutant: the URLs of the store are not loaded before the pass
ExistingResolvedUrlsNone(store) == {}

\* select(Job.resolved_url).where(Job.resolved_url.isnot(None))
ExistingResolvedUrls(store) == {store[i].resolved_url : i \in DOMAIN store} \ {NoUrl}

\* the pass before its first source
SaveStart ==
  [jobs |-> jobs, urls |-> ExistingResolvedUrls(jobs), seen |-> {}, srcRuns |-> srcRuns,
   log |-> sessLog["orch"], total |-> 0, new |-> 0, duplicate |-> 0, failed |-> 0]

\* mutant: a failed source is processed like a successful one
SaveSourceAny(s, acc) ==
  LET st == SaveJobs(s, results[s].jobs_data,
                     [jobs |-> acc.jobs, ids |-> ExistingSourceIds(acc.jobs, s),
                      urls |-> acc.urls, seen |-> acc.seen,
                      new |-> 0, duplicate |-> 0, failed |-> 0])
  IN [acc EXCEPT
        !.jobs = st.jobs, !.urls = st.urls, !.seen = st.seen,
        !.srcRuns[s] = [@ EXCEPT !.jobs_new = st.new,
                                 !.jobs_duplicate = st.duplicate,
                                 !.jobs_failed = st.failed,
                                 !.log = @ \o <<Entry("orch", s, "saving"),
                                                Entry("orch", s, "saved")>>],
        !.log = @ \o <<Entry("orch", s, "saving"), Entry("orch", s, "saved")>>,
        !.total = @ + results[s].jobs_found,
        !.new = @ + st.new,
        !.duplicate = @ + st.duplicate,
        !.failed = @ + st.failed]

\* one source of "for result in scrape_results"
SaveSource(s, acc) ==
  IF ~results[s].success THEN acc
  ELSE LET st == SaveJobs(s, results[s].jobs_data,
                          [jobs |-> acc.jobs, ids |-> ExistingSourceIds(acc.jobs, s),
                           urls |-> acc.urls, seen |-> acc.seen,
                           new |-> 0, duplicate |-> 0, failed |-> 0])
       IN [acc EXCEPT
             !.jobs = st.jobs, !.urls = st.urls, !.seen = st.seen,
             !.srcRuns[s] = [@ EXCEPT !.jobs_new = st.new,
                                      !.jobs_duplicate = st.duplicate,
                                      !.jobs_failed = st.failed,
                                      !.log = @ \o <<Entry("orch", s, "saving"),
                                                     Entry("orch", s, "saved")>>],
             !.log = @ \o <<Entry("orch", s, "saving"), Entry("orch", s, "saved")>>,
             !.total = @ + results[s].jobs_found,
             !.new = @ + st.new,
             !.duplicate = @ + st.duplicate,
             !.failed = @ + st.failed]

RECURSIVE SavePass(_, _)
SavePass(srcs, acc) ==
  IF srcs = <<>> THEN acc ELSE SavePass(Tail(srcs), SaveSource(Head(srcs), acc))

\* ---- scrape_source_parallel: one task per source, on its own session ----
\* mutant: a task that has started may create its SourceRun once more
TaskStartAgain(s) ==
  /\ tpc[s] \in {"init", "started"}
  /\ srcRuns' = [srcRuns EXCEPT ![s] =
                   [NoSourceRun EXCEPT !.status = "running",
                                       !.log = <<Entry(s, s, "start")>>,
                                       !.rows = srcRuns[s].rows + 1]]
  /\ sessLog' = [sessLog EXCEPT ![s] = Append(runLog, Entry(s, s, "start"))]
  /\ runLog' = sessLog'[s]
  /\ tpc' = [tpc EXCEPT ![s] = "started"]
  /\ UNCHANGED <<sources, jobs, results, runStats, matchCalls, doneOrder>>
  /\ UNCHANGED <<runs, pc, launched, outcome, pipeFrame>>

\* SourceRun(status=RUNNING) committed; the Run is loaded into the task's session
\* and "Starting ... scraper" is appended to that copy of Run.logs
TaskStart(s) ==
  /\ tpc[s] = "init"
  /\ srcRuns' = [srcRuns EXCEPT ![s] =
                   [NoSourceRun EXCEPT !.status = "running",
                                       !.log = <<Entry(s, s, "start")>>,
                                       !.rows = srcRuns[s].rows + 1]]
  /\ sessLog' = [sessLog EXCEPT ![s] = Append(runLog, Entry(s, s, "start"))]
  /\ runLog' = sessLog'[s]
  /\ tpc' = [tpc EXCEPT ![s] = "started"]
  /\ UNCHANGED <<sources, jobs, results, runStats, matchCalls, doneOrder>>
  /\ UNCHANGED <<runs, pc, launched, outcome, pipeFrame>>

\* mutant: the handler returns the failure marker but leaves the SourceRun as it is
FailTaskSilently(s, msg) ==
  /\ srcRuns' = srcRuns
  /\ sessLog' = [sessLog EXCEPT ![s] = <<>>]
  /\ runLog' = Append(sessLog[s], Entry(s, s, "failed"))
  /\ results' = [results EXCEPT ![s] =
                   [NoResult EXCEPT !.done = TRUE, !.success = FALSE, !.error = msg]]
  /\ tpc' = [tpc EXCEPT ![s] = "done"]
  /\ doneOrder' = Append(doneOrder, s)

\* mutant: the handler marks the SourceRun failed without setting completed_at
FailTaskNoCompletedAt(s, msg) ==
  /\ srcRuns' = [srcRuns EXCEPT ![s] =
                   [@ EXCEPT !.status = "failed", !.error_message = msg,
                             !.log = Append(@, Entry(s, s, "failed"))]]
  /\ sessLog' = [sessLog EXCEPT ![s] = <<>>]
  /\ runLog' = Append(sessLog[s], Entry(s, s, "failed"))
  /\ results' = [results EXCEPT ![s] =
                   [NoResult EXCEPT !.done = TRUE, !.success = FALSE, !.error = msg]]
  /\ tpc' = [tpc EXCEPT ![s] = "done"]
  /\ doneOrder' = Append(doneOrder, s)

\* except Exception: SourceRun failed with the error, "Failed: ..." appended to both
\* logs, commit; the ScrapeResult is returned with success = False
FailTask(s, msg) ==
  /\ srcRuns' = [srcRuns EXCEPT ![s] =
                   [@ EXCEPT !.status = "failed", !.error_message = msg,
                             !.completed_at = now,
                             !.log = Append(@, Entry(s, s, "failed"))]]
  /\ sessLog' = [sessLog EXCEPT ![s] = <<>>]
  /\ runLog' = Append(sessLog[s], Entry(s, s, "failed"))
  /\ results' = [results EXCEPT ![s] =
                   [NoResult EXCEPT !.done = TRUE, !.success = FALSE, !.error = msg]]
  /\ tpc' = [tpc EXCEPT ![s] = "done"]
  /\ doneOrder' = Append(doneOrder, s)

\* registry check, scraper instance, existing slugs ("Found N existing jobs")
TaskPrepare(s) ==
  /\ tpc[s] = "started"
  /\ \E registered \in BOOLEAN :
       IF ~registered
         THEN FailTask(s, "not_registered")
         ELSE /\ srcRuns' = [srcRuns EXCEPT ![s].log = Append(@, Entry(s, s, "existing"))]
              /\ tpc' = [tpc EXCEPT ![s] = "scraping"]
              /\ UNCHANGED <<results, runLog, sessLog, doneOrder>>
  /\ UNCHANGED <<sources, jobs, runStats, matchCalls>>
  /\ UNCHANGED <<runs, pc, launched, outcome, pipeFrame>>

\* progress_callback: the message goes to both logs, commit
TaskProgress(s) ==
  /\ tpc[s] = "scraping"
  /\ srcRuns' = [srcRuns EXCEPT ![s].log = Append(@, Entry(s, s, "progress"))]
  /\ sessLog' = [sessLog EXCEPT ![s] = Append(@, Entry(s, s, "progress"))]
  /\ runLog' = sessLog'[s]
  /\ tpc' = [tpc EXCEPT ![s] = "progressed"]
  /\ UNCHANGED <<sources, jobs, results, runStats, matchCalls, doneOrder>>
  /\ UNCHANGED <<runs, pc, launched, outcome, pipeFrame>>

\* scraper.scrape raises
TaskRaise(s) ==
  /\ tpc[s] \in {"scraping", "progressed"}
  /\ FailTask(s, "scrape_error")
  /\ UNCHANGED <<sources, jobs, runStats, matchCalls>>
  /\ UNCHANGED <<runs, pc, launched, outcome, pipeFrame>>

\* mutant: the task inserts the postings it scraped as Job rows itself
TaskCompleteWritesJobs(s) ==
  /\ tpc[s] \in {"scraping", "progressed"}
  /\ \E data \in AdapterOutputs :
       /\ results' = [results EXCEPT ![s] =
                        [NoResult EXCEPT !.done = TRUE, !.jobs_data = data,
                                         !.jobs_found = Len(data)]]
       /\ srcRuns' = [srcRuns EXCEPT ![s] =
                        [@ EXCEPT !.status = "completed", !.jobs_found = Len(data),
                                  !.completed_at = now,
                                  !.log = Append(@, Entry(s, s, "complete"))]]
       /\ jobs' = jobs \o [i \in 1..Len(data) |->
                             JobRow(s, data[i].source_id, data[i].resolved_url)]
  /\ sessLog' = [sessLog EXCEPT ![s] = <<>>]
  /\ runLog' = Append(sessLog[s], Entry(s, s, "complete"))
  /\ tpc' = [tpc EXCEPT ![s] = "done"]
  /\ doneOrder' = Append(doneOrder, s)
  /\ UNCHANGED <<sources, runStats, matchCalls>>
  /\ UNCHANGED <<runs, pc, launched, outcome, pipeFrame>>

\* scraper.scrape returns jobs_data: SourceRun completed, "Scraping complete"
TaskComplete(s) ==
  /\ tpc[s] \in {"scraping", "progressed"}
  /\ \E data \in AdapterOutputs :
       /\ results' = [results EXCEPT ![s] =
                        [NoResult EXCEPT !.done = TRUE, !.jobs_data = data,
                                         !.jobs_found = Len(data)]]
       /\ srcRuns' = [srcRuns EXCEPT ![s] =
                        [@ EXCEPT !.status = "completed", !.jobs_found = Len(data),
                                  !.completed_at = now,
                                  !.log = Append(@, Entry(s, s, "complete"))]]
  /\ sessLog' = [sessLog EXCEPT ![s] = <<>>]
  /\ runLog' = Append(sessLog[s], Entry(s, s, "complete"))
  /\ tpc' = [tpc EXCEPT ![s] = "done"]
  /\ doneOrder' = Append(doneOrder, s)
  /\ UNCHANGED <<sources, jobs, runStats, matchCalls>>
  /\ UNCHANGED <<runs, pc, launched, outcome, pipeFrame>>

\* ---- _execute_scraping, step by step, on the orchestrator's session ----
\* add_log(run, ...); commit: the whole list held by the session is written
OrchCommitLog(log) ==
  /\ sessLog' = [sessLog EXCEPT !["orch"] = log]
  /\ runLog' = log

\* the outermost handler: FAILED, completed_at, error_message, "Scraping failed", commit
FailPipe(p, msg, log) ==
  /\ FailRun(p, msg)
  /\ OrchCommitLog(Append(log, Entry("orch", "run", "failed")))

AllTasksDone == \A s \in SourceNames : tpc[s] \in {"none", "done"}

\* profile and source checks, "Starting parallel scraping", the tasks are created
PipePre(p) ==
  /\ pc[p] = "exec_pre"
  /\ IF ~hasProfile
       THEN FailPipe(p, "no_profile", sessLog["orch"]) /\ UNCHANGED <<launched, tpc>>
     ELSE IF sources = <<>>
       THEN FailPipe(p, "no_sources", sessLog["orch"]) /\ UNCHANGED <<launched, tpc>>
     ELSE /\ OrchCommitLog(Append(sessLog["orch"], Entry("orch", "run", "start")))
          /\ launched' = [launched EXCEPT ![p] = TRUE]
          /\ tpc' = [s \in SourceNames |->
                       IF s \in SeqToSet(sources) THEN "init" ELSE "none"]
          /\ pc' = [pc EXCEPT ![p] = "scraping"]
          /\ UNCHANGED <<runs, outcome>>
  /\ UNCHANGED <<sources, jobs, srcRuns, results, runStats, matchCalls, doneOrder, pipeFrame>>

\* mutant: the barrier opens as soon as one task has finished
PipeGatherFirstDone(p) ==
  /\ pc[p] = "scraping"
  /\ \E s \in SourceNames : tpc[s] = "done"
  /\ OrchCommitLog(Append(sessLog["orch"], Entry("orch", "run", "all_done")))
  /\ pc' = [pc EXCEPT ![p] = "saving"]
  /\ UNCHANGED <<sources, jobs, tpc, srcRuns, results, runStats, matchCalls, doneOrder>>
  /\ UNCHANGED <<runs, launched, outcome, pipeFrame>>

\* await asyncio.gather(*scrape_tasks, return_exceptions=True), then
\* "All scraping complete. Saving jobs ..."
PipeGather(p) ==
  /\ pc[p] = "scraping"
  /\ AllTasksDone
  /\ OrchCommitLog(Append(sessLog["orch"], Entry("orch", "run", "all_done")))
  /\ pc' = [pc EXCEPT ![p] = "saving"]
  /\ UNCHANGED <<sources, jobs, tpc, srcRuns, results, runStats, matchCalls, doneOrder>>
  /\ UNCHANGED <<runs, launched, outcome, pipeFrame>>

\* mutant: the results are taken in the order the tasks finished
ProcessedResultsAsCompleted == doneOrder

\* processed_results: one ScrapeResult per task, in the order of scrape_tasks,
\* that is of sources
ProcessedResults == sources

NumFailed == Cardinality({s \in SeqToSet(sources) : ~results[s].success})

\* the save pass, the stats and "Scraping completed: ..."; or an exception escapes
\* the pass after the first k sources were committed
PipeSave(p) ==
  /\ pc[p] = "saving"
  /\ \/ LET acc == SavePass(ProcessedResults, SaveStart)
        IN /\ jobs' = acc.jobs
           /\ srcRuns' = acc.srcRuns
           /\ OrchCommitLog(Append(acc.log, Entry("orch", "run", "scraping_completed")))
           /\ runStats' = [NoStats EXCEPT
                             !.returned = TRUE, !.total = acc.total, !.new = acc.new,
                             !.duplicate = acc.duplicate, !.failed = acc.failed,
                             !.sources_run = Len(sources) - NumFailed,
                             !.sources_failed = NumFailed]
           /\ pc' = [pc EXCEPT ![p] = "saved"]
           /\ UNCHANGED <<runs, outcome>>
     \/ \E k \in 0..(Len(ProcessedResults) - 1) :
          LET acc == SavePass(SubSeq(ProcessedResults, 1, k), SaveStart)
          IN /\ jobs' = acc.jobs
             /\ srcRuns' = acc.srcRuns
             /\ FailPipe(p, "save_error", acc.log)
             /\ UNCHANGED runStats
  /\ UNCHANGED <<sources, tpc, results, matchCalls, doneOrder, launched, pipeFrame>>

\* mutant: the matching phase is entered whatever the save pass persisted
PipeEnterMatchingAlways(p) ==
  /\ pc[p] = "saved"
  /\ runs' = [runs EXCEPT ![myRun[p]].phase = "matching"]
  /\ pc' = [pc EXCEPT ![p] = "matching"]
  /\ UNCHANGED runStats
  /\ UNCHANGED <<sources, jobs, tpc, srcRuns, results, runLog, sessLog, matchCalls, doneOrder>>
  /\ UNCHANGED <<launched, outcome, pipeFrame>>

\* if total_new > 0: run.phase = MATCHING; else: run.stats = {...} (console message only)
PipeEnterMatching(p) ==
  /\ pc[p] = "saved"
  /\ IF runStats.new > 0
       THEN /\ runs' = [runs EXCEPT ![myRun[p]].phase = "matching"]
            /\ pc' = [pc EXCEPT ![p] = "matching"]
            /\ UNCHANGED runStats
       ELSE /\ runStats' = [runStats EXCEPT !.persisted = TRUE]
            /\ pc' = [pc EXCEPT ![p] = "finalize"]
            /\ UNCHANGED runs
  /\ UNCHANGED <<sources, jobs, tpc, srcRuns, results, runLog, sessLog, matchCalls, doneOrder>>
  /\ UNCHANGED <<launched, outcome, pipeFrame>>

\* matching_stats = await match_jobs(db, run); run.stats = {...}; or match_jobs raises
PipeMatch(p) ==
  /\ pc[p] = "matching"
  /\ matchCalls' = matchCalls + 1
  /\ \/ /\ OrchCommitLog(Append(sessLog["orch"], Entry("orch", "run", "matching")))
        /\ runStats' = [runStats EXCEPT !.persisted = TRUE, !.matched = TRUE]
        /\ pc' = [pc EXCEPT ![p] = "finalize"]
        /\ UNCHANGED <<runs, outcome>>
     \/ /\ FailPipe(p, "match_error",
                     Append(sessLog["orch"], Entry("orch", "run", "matching_failed")))
        /\ UNCHANGED runStats
  /\ UNCHANGED <<sources, jobs, tpc, srcRuns, results, doneOrder, launched, pipeFrame>>

\* mutant: every run that reaches finalization is completed
PipeFinalizeAlwaysCompleted(p) ==
  /\ pc[p] = "finalize"
  /\ CompleteRun(p, "completed")
  /\ OrchCommitLog(Append(sessLog["orch"], Entry("orch", "run", "run_completed")))
  /\ UNCHANGED <<sources, jobs, tpc, srcRuns, results, runStats, matchCalls, doneOrder>>
  /\ UNCHANGED <<launched, pipeFrame>>

\* run.status = COMPLETED if sources_failed == 0 else PARTIAL; "Run completed successfully!"
PipeFinalize(p) ==
  /\ pc[p] = "finalize"
  /\ CompleteRun(p, IF runStats.sources_failed = 0 THEN "completed" ELSE "partial")
  /\ OrchCommitLog(Append(sessLog["orch"], Entry("orch", "run", "run_completed")))
  /\ UNCHANGED <<sources, jobs, tpc, srcRuns, results, runStats, matchCalls, doneOrder>>
  /\ UNCHANGED <<launched, pipeFrame>>

\* the state right after scrape_and_save_jobs committed its Run: the Reaper ran,
\* the lock was acquired on the first try, no Run was running
PipeInit ==
  /\ now = 0
  /\ runs = <<NewRun("scheduled")>>
  /\ lockHolders = {Orch}
  /\ sessAlive = [p \in Procs |-> TRUE]
  /\ hasProfile \in BOOLEAN
  /\ retry_count = [p \in Procs |-> 0]
  /\ sources \in SourceLists
  /\ numEnabled = Len(sources)
  /\ pc = [p \in Procs |-> IF p = Orch THEN "exec_pre" ELSE "idle"]
  /\ path = [p \in Procs |-> IF p = Orch THEN "sched" ELSE "none"]
  /\ reaped = [p \in Procs |-> IF p = Orch THEN 0 ELSE NULL]
  /\ acq = [p \in Procs |-> IF p = Orch THEN "true" ELSE "none"]
  /\ tries = [p \in Procs |-> IF p = Orch THEN 1 ELSE 0]
  /\ sawRunning = [p \in Procs |-> "none"]
  /\ killed = [p \in Procs |-> NoProc]
  /\ myRun = [p \in Procs |-> IF p = Orch THEN 1 ELSE 0]
  /\ launched = [p \in Procs |-> FALSE]
  /\ unlocked = [p \in Procs |-> FALSE]
  /\ outcome = [p \in Procs |-> "none"]
  /\ crashes = 0
  /\ jobs \in InitialStores
  /\ tpc = [s \in SourceNames |-> "none"]
  /\ srcRuns = [s \in SourceNames |-> NoSourceRun]
  /\ results = [s \in SourceNames |-> NoResult]
  /\ runLog = <<>>
  /\ sessLog = [x \in Sessions |-> <<>>]
  /\ runStats = NoStats
  /\ matchCalls = 0
  /\ doneOrder = <<>>

PipeNext ==
  \/ \E s \in SourceNames :
       \/ TaskStart(s)
       \/ TaskPrepare(s)
       \/ TaskProgress(s)
       \/ TaskRaise(s)
       \/ TaskComplete(s)
  \/ \E p \in {Orch} :
       \/ PipePre(p)
       \/ PipeGather(p)
       \/ PipeSave(p)
       \/ PipeEnterMatching(p)
       \/ PipeMatch(p)
       \/ PipeFinalize(p)
       \/ ReleaseScraperLock(p)

SpecPipe == PipeInit /\ [][PipeNext]_vars

\* =================== the save pass, run after run ===================
\* Scheduled runs follow one another; the adapters return the same postings in
\* every run. Each run is followed from its join barrier.
MaxRuns == 2           \* bound: runs in a row

\* the SourceRun of source s when its task returned data without a progress message
GatheredSourceRun(s, data) ==
  [NoSourceRun EXCEPT
     !.status = "completed", !.jobs_found = Len(data), !.completed_at = now,
     !.log = <<Entry(s, s, "start"), Entry(s, s, "existing"), Entry(s, s, "complete")>>,
     !.rows = 1]

\* Run.logs as the orchestrator commits it after the gather
GatheredLog == <<Entry("orch", "run", "start"), Entry("orch", "run", "all_done")>>

\* a run with a profile whose tasks all returned, in priority order
RepeatInit ==
  /\ now = 0
  /\ runs = <<NewRun("scheduled")>>
  /\ lockHolders = {Orch}
  /\ sessAlive = [p \in Procs |-> TRUE]
  /\ hasProfile = TRUE
  /\ retry_count = [p \in Procs |-> 0]
  /\ sources \in SourceLists \ {<<>>}
  /\ numEnabled = Len(sources)
  /\ pc = [p \in Procs |-> IF p = Orch THEN "saving" ELSE "idle"]
  /\ path = [p \in Procs |-> IF p = Orch THEN "sched" ELSE "none"]
  /\ reaped = [p \in Procs |-> IF p = Orch THEN 0 ELSE NULL]
  /\ acq = [p \in Procs |-> IF p = Orch THEN "true" ELSE "none"]
  /\ tries = [p \in Procs |-> IF p = Orch THEN 1 ELSE 0]
  /\ sawRunning = [p \in Procs |-> "none"]
  /\ killed = [p \in Procs |-> NoProc]
  /\ myRun = [p \in Procs |-> IF p = Orch THEN 1 ELSE 0]
  /\ launched = [p \in Procs |-> p = Orch]
  /\ unlocked = [p \in Procs |-> FALSE]
  /\ outcome = [p \in Procs |-> "none"]
  /\ crashes = 0
  /\ jobs \in InitialStores
  /\ tpc = [s \in SourceNames |-> IF s \in SeqToSet(sources) THEN "done" ELSE "none"]
  /\ \E out \in [SourceNames -> AdapterOutputs] :
       /\ results = [s \in SourceNames |->
                       IF s \in SeqToSet(sources)
                         THEN [NoResult EXCEPT !.done = TRUE, !.jobs_data = out[s],
                                               !.jobs_found = Len(out[s])]
                         ELSE NoResult]
       /\ srcRuns = [s \in SourceNames |->
                       IF s \in SeqToSet(sources)
                         THEN GatheredSourceRun(s, out[s]) ELSE NoSourceRun]
  /\ runLog = GatheredLog
  /\ sessLog = [x \in Sessions |-> IF x = "orch" THEN GatheredLog ELSE <<>>]
  /\ runStats = NoStats
  /\ matchCalls = 0
  /\ doneOrder = sources

\* the next scheduled invocation, from its start to its join barrier: no Run is
\* running, the lock is free, a new Run is created, and the tasks return what they
\* returned before
StartNextRun(p) ==
  /\ pc[p] \in {"returned", "raised"}
  /\ Len(runs) < MaxRuns
  /\ RunningRuns = {}
  /\ lockHolders = {}
  /\ runs' = Append(runs, NewRun("scheduled"))
  /\ myRun' = [myRun EXCEPT ![p] = Len(runs) + 1]
  /\ lockHolders' = {p}
  /\ unlocked' = [unlocked EXCEPT ![p] = FALSE]
  /\ outcome' = [outcome EXCEPT ![p] = "none"]
  /\ pc' = [pc EXCEPT ![p] = "saving"]
  /\ srcRuns' = [s \in SourceNames |->
                   IF s \in SeqToSet(sources)
                     THEN GatheredSourceRun(s, results[s].jobs_data) ELSE NoSourceRun]
  /\ runLog' = GatheredLog
  /\ sessLog' = [x \in Sessions |-> IF x = "orch" THEN GatheredLog ELSE <<>>]
  /\ runStats' = NoStats
  /\ matchCalls' = 0
  /\ UNCHANGED <<sources, jobs, tpc, results, doneOrder>>
  /\ UNCHANGED <<now, sessAlive, hasProfile, numEnabled, retry_count, path, reaped, acq, tries,
                 sawRunning, killed, launched, crashes>>

RepeatNext ==
  \E p \in {Orch} :
    \/ PipeSave(p)
    \/ PipeEnterMatching(p)
    \/ PipeMatch(p)
    \/ PipeFinalize(p)
    \/ ReleaseScraperLock(p)
    \/ StartNextRun(p)

SpecRepeat == RepeatInit /\ [][RepeatNext]_vars

\* =================== a pipeline that outlasts the timeout ===================
\* One invocation is followed in detail from its join barrier while the clock
\* runs and the other processes make their scheduled attempts: the Reaper of
\* another attempt can reach the Run, and stale-lock recovery the session, of the
\* invocation that is still at work.

\* the session of p was terminated: its next statement raises, and so does the
\* commit of the handler of _execute_scraping
PipeLost(p) ==
  /\ pc[p] \in {"saving", "saved", "matching", "finalize"}
  /\ ~sessAlive[p]
  /\ ConnectionLost(p)
  /\ UNCHANGED <<now, lockHolders, sessAlive, hasProfile, numEnabled, retry_count, path, reaped,
                 acq, tries, sawRunning, killed, unlocked, crashes>>
  /\ UNCHANGED pipeVars

\* one enabled source that returned no posting or a single one, an empty jobs
\* table, the task through the barrier
LateInit ==
  /\ RepeatInit
  /\ sources = <<"A">>
  /\ jobs = <<>>
  /\ results["A"].jobs_found <= 1

LateNext ==
  \/ Tick
  \/ \E p \in {Orch} :
       \/ sessAlive[p] /\ PipeSave(p)
       \/ sessAlive[p] /\ PipeEnterMatching(p)
       \/ sessAlive[p] /\ PipeMatch(p)
       \/ sessAlive[p] /\ PipeFinalize(p)
       \/ PipeLost(p)
  \/ \E q \in Procs \ {Orch} :
       \/ CleanupStaleRuns(q)
       \/ AcquireTry(q)
       \/ AcquireCheck(q)
       \/ AcquireTerminate(q)
       \/ AcquireRetry(q)
       \/ DoubleCheck(q)
       \/ CreateRun(q)
       \/ ExecPre(q)
       \/ SaveAndFinalize(q)
  \/ \E p \in Procs : ReleaseScraperLock(p)

SpecLate == LateInit /\ [][LateNext]_vars

\* =================== the scheduler's job ===================
\* Every process is one firing of the scheduler's job: run_scheduled_pipeline
\* calls scrape_and_save_jobs on a session of its own and decides, from what the
\* call raised, whether to call itself again.
MAX_RETRIES == 2

\* the errors scrape_and_save_jobs raises as ValueError
ValueErrors == {"lock_refused", "already_running", "no_profile", "no_sources"}

\* any(msg in str(e) for msg in ["connection is closed", "connection was closed", ...])
IsConnectionError(msg) == msg = "conn_error"

\* mutant: every error of the call is answered by a retry, while retries are left
ShouldRetryAnyError(p) ==
  /\ pc[p] = "raised"
  /\ retry_count[p] < MAX_RETRIES

\* the branch "is_connection_error and retry_count < MAX_RETRIES": "except ValueError"
\* comes first, so a ValueError never reaches it
ShouldRetry(p) ==
  /\ pc[p] = "raised"
  /\ outcome[p] \notin ValueErrors
  /\ IsConnectionError(outcome[p])
  /\ retry_count[p] < MAX_RETRIES

\* what run_scheduled_pipeline lets through to the scheduler: both handlers log
\* and fall through, the finally swallows what aclose raises
Propagates(msg) == FALSE

\* aclose; asyncio.sleep(5); run_scheduled_pipeline(trigger_type, retry_count + 1):
\* the call starts over on a fresh session
SchedRetry(p) ==
  /\ path[p] = "sched"
  /\ ShouldRetry(p)
  /\ retry_count' = [retry_count EXCEPT ![p] = @ + 1]
  /\ sessAlive' = [sessAlive EXCEPT ![p] = TRUE]
  /\ pc' = [pc EXCEPT ![p] = "idle"]
  /\ reaped' = [reaped EXCEPT ![p] = NULL]
  /\ acq' = [acq EXCEPT ![p] = "none"]
  /\ tries' = [tries EXCEPT ![p] = 0]
  /\ sawRunning' = [sawRunning EXCEPT ![p] = "none"]
  /\ killed' = [killed EXCEPT ![p] = NoProc]
  /\ myRun' = [myRun EXCEPT ![p] = 0]
  /\ launched' = [launched EXCEPT ![p] = FALSE]
  /\ unlocked' = [unlocked EXCEPT ![p] = FALSE]
  /\ outcome' = [outcome EXCEPT ![p] = "none"]
  /\ UNCHANGED <<now, runs, lockHolders, hasProfile, numEnabled, path, crashes>>
  /\ UNCHANGED pipeVars

\* the call returned, or its error was logged; the finally closes the generator
SchedEnd(p) ==
  /\ path[p] = "sched"
  /\ pc[p] \in {"returned", "raised"}
  /\ ~ShouldRetry(p)
  /\ pc' = [pc EXCEPT ![p] = IF Propagates(outcome[p]) THEN "sched_raised" ELSE "sched_done"]
  /\ UNCHANGED <<now, runs, lockHolders, sessAlive, hasProfile, numEnabled, retry_count,
                 path, reaped, acq, tries, sawRunning, killed, myRun, launched, unlocked,
                 outcome, crashes>>
  /\ UNCHANGED pipeVars

\* two firings of the job overlap
Firings == {1, 2}

SchedNext ==
  \/ Tick
  \/ \E p \in Firings :
       \/ CleanupStaleRuns(p)
       \/ AcquireTry(p)
       \/ AcquireCheck(p)
       \/ AcquireTerminate(p)
       \/ AcquireRetry(p)
       \/ DoubleCheck(p)
       \/ CreateRun(p)
       \/ ExecPre(p)
       \/ SaveAndFinalize(p)
       \/ ReleaseScraperLock(p)
       \/ SchedRetry(p)
       \/ SchedEnd(p)

SpecSched == Init /\ [][SchedNext]_vars

\* ======================= properties =======================

\* p's acquire_scraper_lock returned true and p has neither released nor finished
Holding(p) ==
  /\ acq[p] = "true"
  /\ pc[p] \in {"dblcheck", "create", "exec_pre", "scraping", "release"}

\* p is inside _execute_scraping
InExec(p) == pc[p] \in {"exec_pre", "scraping"}

Finished(p) == pc[p] \in {"returned", "raised"}

C2_AtMostOneRunning == Cardinality(RunningRuns) <= 1

\* C3: no two orchestrator invocations are inside _execute_scraping at the same
\* time; stated here for the invocations that went through the lock
\* (scrape_and_save_jobs), the case of the Reaper plus stale-lock recovery.
C3_OnePipelineAtATime ==
  \A p, q \in Procs :
    (p # q /\ path[p] = "sched" /\ path[q] = "sched") => ~(InExec(p) /\ InExec(q))

\* C4: one cleanup_stale_runs pass turns every Run that is running and older than
\* the timeout into failed with an error message and completed_at, leaves every
\* other Run as it was, and returns the number of Runs it changed.
C4_StaleRecovery ==
  [][\A p \in Procs :
       (pc[p] = "idle" /\ pc'[p] = "acq_try") =>
         /\ DOMAIN runs' = DOMAIN runs
         /\ \A r \in DOMAIN runs :
              IF runs[r].status = "running"
                 /\ now - runs[r].started_at > STALE_RUN_TIMEOUT_MINUTES
                THEN /\ runs'[r].status = "failed"
                     /\ runs'[r].error_message # NoError
                     /\ runs'[r].completed_at # NULL
                ELSE runs'[r] = runs[r]
         /\ reaped'[p] = Cardinality({r \in DOMAIN runs : runs'[r] # runs[r]})
    ]_vars

\* a pass reaped a stale Run and left a younger running Run alone
C4_Witness ==
  \E p \in Procs, r1, r2 \in RunIds :
    /\ reaped[p] >= 1
    /\ runs[r1].status = "failed" /\ runs[r1].error_message = "timeout"
    /\ runs[r2].status = "running" /\ runs[r2].started_at < runs[r1].completed_at

\* C5: in every pipeline execution cleanup_stale_runs has completed before any
\* lock acquisition attempt and before any scrape task is launched.
C5_ReaperFirst ==
  \A p \in Procs : (tries[p] > 0 \/ launched[p]) => reaped[p] # NULL

\* C6 (as stated): a session is terminated only in states where no Run is running.
C6_TerminateOnlyWhenNoRun ==
  [][\A q \in Procs : (sessAlive[q] /\ ~sessAlive'[q]) => RunningRuns = {}]_vars

\* C6 (amended): a call whose stale check found a running Run terminates no
\* session and returns false after its single try; a session is terminated only by
\* a call whose own check had found no running Run (one may have started since).
C6_NoKillWhenRunSeen ==
  /\ \A p \in Procs :
       sawRunning[p] = "yes" => killed[p] = NoProc /\ acq[p] = "false" /\ tries[p] = 1
  /\ \A q \in Procs :
       ~sessAlive[q] => \E p \in Procs : killed[p] = q /\ sawRunning[p] = "no"

\* one caller was refused on seeing a running Run, another terminated a holder
C6_Witness ==
  \E p, q \in Procs :
    /\ sawRunning[p] = "yes" /\ acq[p] = "false"
    /\ killed[q] # NoProc /\ ~sessAlive[killed[q]]

C8_RefusedStart ==
  \A p \in Procs :
    /\ acq[p] = "false" => outcome[p] = "lock_refused"
    /\ outcome[p] = "lock_refused" =>
         /\ pc[p] = "raised"
         /\ myRun[p] = 0
         /\ ~launched[p]
         /\ ~unlocked[p]
         /\ p \notin lockHolders

\* refused after the recovery attempt (terminate, then a failed retry)
C8_Witness ==
  \E p \in Procs :
    outcome[p] = "lock_refused" /\ tries[p] = 2 /\ killed[p] # NoProc

\* C9: an attempt that fails because no profile exists or no source is enabled
\* has created no Run record.
C9_NoRunOnPreconditionFailure ==
  \A p \in Procs : outcome[p] \in {"no_profile", "no_sources"} => myRun[p] = 0

Terminal == {"completed", "partial", "failed"}

\* C11: at the moment scrape_and_save_jobs releases the lock, the Run it created
\* (if any) is persisted with a terminal status; the lock is never released while
\* that Run is still running.
C11_FinalizeThenRelease ==
  \A p \in Procs :
    (path[p] = "sched" /\ pc[p] = "release" /\ myRun[p] # 0)
      => runs[myRun[p]].status \in Terminal

\* C15: a Run with status failed has an error message and a Run with status
\* completed or partial has none, whoever wrote the status and in whatever order.
C15_ErrorIffFailed ==
  \A r \in RunIds :
    /\ runs[r].status = "failed" => runs[r].error_message # NoError
    /\ runs[r].status \in {"completed", "partial"} => runs[r].error_message = NoError

\* C16: once a Run's status is completed, partial or failed with completed_at set,
\* no later step of any process changes its status.
C16_TerminalAbsorbing ==
  [][\A r \in RunIds :
       (runs[r].status \in Terminal /\ runs[r].completed_at # NULL)
         => runs'[r].status = runs[r].status]_vars

\* ---- the detailed pipeline ----
\* the orchestrator has left _execute_scraping
PipeOver == pc[Orch] \in {"release", "returned", "raised"}

\* new postings the save pass persisted, as recorded on the SourceRuns
PersistedNew == srcRuns["A"].jobs_new + srcRuns["B"].jobs_new

\* an exception escaped a phase of _execute_scraping
Escaped == ~runStats.returned \/ (matchCalls = 1 /\ ~runStats.matched)

InLog(e, log) == \E i \in DOMAIN log : log[i] = e

RECURSIVE IsSubSeq(_, _)
IsSubSeq(a, b) ==
  IF a = <<>> THEN TRUE
  ELSE IF b = <<>> THEN FALSE
  ELSE IF Head(a) = Head(b) THEN IsSubSeq(Tail(a), Tail(b))
  ELSE IsSubSeq(a, Tail(b))

\* C12 (as stated): phase becomes matching and match_jobs is invoked exactly once
\* iff the save pass persisted at least one new posting; when every candidate is a
\* duplicate the run ends with phase scraping, status completed, new_jobs = 0 and
\* no call of match_jobs.
C12_MatchingIffNewElseCompleted ==
  PipeOver =>
    /\ matchCalls <= 1
    /\ (runs[1].phase = "matching") <=> (PersistedNew > 0)
    /\ (matchCalls = 1) <=> (PersistedNew > 0)
    /\ (runStats.returned /\ runStats.new = 0 /\ runStats.failed = 0)
         => /\ runs[1].phase = "scraping"
            /\ runs[1].status = "completed"
            /\ matchCalls = 0

\* C12 (amended): for a run whose save pass returns, phase becomes matching and
\* match_jobs is invoked, once, iff the pass persisted at least one new posting;
\* with no new posting the run ends with phase scraping, new_jobs = 0, no call of
\* match_jobs and status completed if no source failed, partial otherwise.  A run
\* whose save pass raises never enters matching.
C12_MatchingIffNew ==
  /\ matchCalls <= 1
  /\ runStats.returned => runStats.new = PersistedNew
  /\ (runs[1].phase = "matching")
       <=> (runStats.returned /\ runStats.new > 0 /\ pc[Orch] # "saved")
  /\ (matchCalls = 1) <=> (runs[1].phase = "matching" /\ pc[Orch] # "matching")
  /\ (PipeOver /\ runStats.returned /\ runStats.new = 0)
       => /\ runs[1].phase = "scraping"
          /\ matchCalls = 0
          /\ runStats.persisted
          /\ runs[1].status = IF NumFailed = 0 THEN "completed" ELSE "partial"

\* one source failed, the other returned only duplicates: the run ended partial
\* with phase scraping
C12_Witness ==
  /\ pc[Orch] = "returned"
  /\ ~results["A"].success
  /\ results["B"].success /\ results["B"].jobs_found > 0
  /\ runStats.new = 0 /\ runStats.duplicate = results["B"].jobs_found
  /\ runs[1].phase = "scraping" /\ runs[1].status = "partial"

\* C13: when matching is skipped because no new posting survived deduplication,
\* the Run's persisted log holds an entry recording that matching was skipped.
C13_SkipLogged ==
  (PipeOver /\ runStats.returned /\ runStats.new = 0)
    => InLog(Entry("orch", "run", "matching_skipped"), runLog)

TaskFails(s) == ~results[s].done /\ results'[s].done /\ ~results'[s].success

AllNew(src, data, store) ==
  /\ \A i \in DOMAIN data :
       /\ data[i].valid
       /\ data[i].source_id \notin ExistingSourceIds(store, src)
       /\ data[i].resolved_url \notin ExistingResolvedUrls(store)
  /\ \A i, j \in DOMAIN data :
       i # j => /\ data[i].source_id # data[j].source_id
                /\ (data[i].resolved_url = NoUrl
                      \/ data[i].resolved_url # data[j].resolved_url)

C19_LogsAppendOnly ==
  [][/\ IsSubSeq(runLog, runLog')
     /\ \A s \in SourceNames : IsSubSeq(srcRuns[s].log, srcRuns'[s].log)]_vars

\* C20: the orchestrator is past the barrier (save pass, matching, finalization,
\* release) only when every launched scrape task has finished.
C20_JoinBarrier ==
  pc[Orch] \in {"saving", "saved", "matching", "finalize", "release", "returned",
                "raised"}
    => AllTasksDone

\* A has failed, B is still in flight, and the orchestrator is still waiting
C20_Witness ==
  /\ pc[Orch] = "scraping"
  /\ results["A"].done /\ ~results["A"].success
  /\ tpc["B"] \in {"init", "started", "scraping", "progressed"}

\* C21: no step of a scrape task changes the jobs table, the table is unchanged
\* from the launch of the tasks to the join barrier, and only the save pass of the
\* orchestrator inserts Job rows.
C21_TasksNeverWriteJobs ==
  [][/\ (\E s \in SourceNames : tpc'[s] # tpc[s]) => jobs' = jobs
     /\ pc[Orch] = "scraping" => jobs' = jobs
     /\ jobs' # jobs => pc[Orch] = "saving" /\ pc'[Orch] # "saving"]_vars

\* both tasks returned postings, the barrier is passed and the table is still empty
C21_Witness ==
  /\ pc[Orch] = "saving"
  /\ \A s \in SourceNames : results[s].success /\ results[s].jobs_found = MaxPostings
  /\ jobs = <<>>

RECURSIVE SumSeq(_)
SumSeq(q) == IF q = <<>> THEN 0 ELSE Head(q) + SumSeq(Tail(q))

\* the successful sources, in the order of the pass
Successful == SelectSeq(sources, LAMBDA s : results[s].success)

\* the step in which the save pass runs, returning or raising
SaveStep == pc[Orch] = "saving" /\ pc'[Orch] # "saving"

\* C30: when the save pass returns, every successful source has jobs_new +
\* jobs_duplicate + jobs_failed = jobs_found = the number of postings it returned,
\* the returned totals are the sums over these sources, and the number of rows
\* added to the jobs table is the total of new; a pass that raises leaves each
\* source either uncounted or fully counted, and added the rows counted as new.
C30_Counting ==
  [][SaveStep =>
      /\ \A s \in SeqToSet(Successful) :
           /\ results[s].jobs_found = Len(results[s].jobs_data)
           /\ srcRuns'[s].jobs_new + srcRuns'[s].jobs_duplicate + srcRuns'[s].jobs_failed
                \in (IF pc'[Orch] = "saved" THEN {results[s].jobs_found}
                                            ELSE {0, results[s].jobs_found})
      /\ Len(jobs') - Len(jobs)
           = SumSeq([i \in DOMAIN Successful |-> srcRuns'[Successful[i]].jobs_new])
      /\ pc'[Orch] = "saved" =>
           /\ runStats'.total
                = SumSeq([i \in DOMAIN Successful |-> results[Successful[i]].jobs_found])
           /\ runStats'.new
                = SumSeq([i \in DOMAIN Successful |-> srcRuns'[Successful[i]].jobs_new])
           /\ runStats'.duplicate
                = SumSeq([i \in DOMAIN Successful |->
                            srcRuns'[Successful[i]].jobs_duplicate])
           /\ runStats'.failed
                = SumSeq([i \in DOMAIN Successful |-> srcRuns'[Successful[i]].jobs_failed])
           /\ Len(jobs') - Len(jobs) = runStats'.new]_vars

\* the pass returned; A had one posting of each kind and B returned three postings
C30_Witness ==
  /\ pc[Orch] = "saved"
  /\ sources = <<"A", "B">>
  /\ srcRuns["A"].jobs_new = 1 /\ srcRuns["A"].jobs_duplicate = 1
  /\ srcRuns["A"].jobs_failed = 1
  /\ results["B"].success /\ results["B"].jobs_found = 3
  /\ runStats.total = 6

\* C25: in a save pass, returning or raising, no row added to the jobs table has a
\* resolved_url that a row before it (of the store or of this pass) has; and when
\* the pass returns, a posting without resolved_url that can be built into a Job
\* has its identity in the table: it was persisted unless the same-source check
\* found it.
C25_ResolvedUrlUnique ==
  [][SaveStep =>
      /\ SubSeq(jobs', 1, Len(jobs)) = jobs
      /\ \A i \in (Len(jobs) + 1)..Len(jobs') :
           jobs'[i].resolved_url # NoUrl =>
             \A j \in 1..(i - 1) : jobs'[j].resolved_url # jobs'[i].resolved_url
      /\ pc'[Orch] = "saved" =>
           \A s \in SeqToSet(Successful) :
             \A i \in DOMAIN results[s].jobs_data :
               LET jd == results[s].jobs_data[i]
               IN (jd.resolved_url = NoUrl /\ jd.valid)
                    => jd.source_id \in ExistingSourceIds(jobs', s)]_vars

\* B's posting with the URL of a stored Job of A was rejected, while A's posting
\* without URL and A's posting with a fresh URL were persisted
C25_Witness ==
  /\ pc[Orch] = "saved"
  /\ sources = <<"A", "B">>
  /\ Posting("j1", "u1", TRUE) \in SeqToSet(results["B"].jobs_data)
  /\ JobRow("A", "j1", "u1") \in SeqToSet(jobs)
  /\ JobRow("B", "j1", "u1") \notin SeqToSet(jobs)
  /\ JobRow("A", "j2", NoUrl) \in SeqToSet(jobs)
  /\ JobRow("A", "j3", "u2") \in SeqToSet(jobs)
  /\ srcRuns["B"].jobs_duplicate >= 1

Pos(s) == CHOOSE i \in DOMAIN sources : sources[i] = s

\* C26: when the save pass returns, the table and every SourceRun's new and
\* duplicate counts are those of processing the results in the priority order of
\* sources, whatever the order the tasks finished in: the rows added are grouped
\* by source in priority order, and no row with a resolved_url is added for B when
\* the earlier source A returned a buildable posting with that URL.
C26_PriorityOrder ==
  [][(SaveStep /\ pc'[Orch] = "saved") =>
      LET acc == SavePass(sources, SaveStart)
      IN /\ jobs' = acc.jobs
         /\ \A s \in SourceNames :
              /\ srcRuns'[s].jobs_new = acc.srcRuns[s].jobs_new
              /\ srcRuns'[s].jobs_duplicate = acc.srcRuns[s].jobs_duplicate
         /\ \A i, j \in (Len(jobs) + 1)..Len(jobs') :
              i < j => Pos(jobs'[i].source) <= Pos(jobs'[j].source)
         /\ \A i \in (Len(jobs) + 1)..Len(jobs') :
              (/\ sources = <<"A", "B">> /\ results["A"].success
               /\ jobs'[i].source = "B" /\ jobs'[i].resolved_url # NoUrl)
              => \A k \in DOMAIN results["A"].jobs_data :
                   LET jd == results["A"].jobs_data[k]
                   IN ~(jd.valid /\ jd.resolved_url = jobs'[i].resolved_url)]_vars

\* the task of B finished first, both sources returned the posting with URL u2,
\* and the Job belongs to A while B counted a duplicate
C26_Witness ==
  /\ pc[Orch] = "saved"
  /\ sources = <<"A", "B">>
  /\ doneOrder = <<"B", "A">>
  /\ Posting("j3", "u2", TRUE) \in SeqToSet(results["A"].jobs_data)
  /\ Posting("j3", "u2", TRUE) \in SeqToSet(results["B"].jobs_data)
  /\ JobRow("A", "j3", "u2") \in SeqToSet(jobs)
  /\ JobRow("B", "j3", "u2") \notin SeqToSet(jobs)
  /\ srcRuns["B"].jobs_duplicate >= 1

\* C29: there is never more than one SourceRun row for a source in the Run; the
\* selected sources are distinct, the tasks launched are exactly one per selected
\* source, a row exists only for a source whose task has started, and once the
\* barrier is passed every selected source has exactly one row.
C29_SourceRunUnique ==
  /\ \A s \in SourceNames :
       /\ srcRuns[s].rows <= 1
       /\ srcRuns[s].rows = 1 <=> tpc[s] \notin {"none", "init"}
       /\ tpc[s] # "none" => /\ launched[Orch]
                             /\ s \in SeqToSet(sources)
  /\ \A i, j \in DOMAIN sources : sources[i] = sources[j] => i = j
  /\ launched[Orch] => \A s \in SeqToSet(sources) : tpc[s] # "none"
  /\ pc[Orch] \in {"saving", "saved", "matching", "finalize"}
       => \A s \in SeqToSet(sources) : srcRuns[s].rows = 1

\* the run returned with two sources, one failed and one completed, one row each
C29_Witness ==
  /\ pc[Orch] = "returned"
  /\ sources = <<"A", "B">>
  /\ srcRuns["A"].status = "failed" /\ srcRuns["A"].rows = 1
  /\ srcRuns["B"].status = "completed" /\ srcRuns["B"].rows = 1

\* the (source, source_id) pairs of the rows of a table
Identities(store) == {<<store[i].source, store[i].source_id>> : i \in DOMAIN store}

\* the candidates of s that repeat an identity of the store, or the identity of an
\* earlier candidate of s that the pass persisted
KnownCandidates(s, before, after) ==
  LET data == results[s].jobs_data
  IN {i \in DOMAIN data :
        \/ <<s, data[i].source_id>> \in Identities(before)
        \/ /\ <<s, data[i].source_id>> \in Identities(after)
           /\ \E k \in 1..(i - 1) : data[k].source_id = data[i].source_id}

\* C22: run after run, no two rows of the jobs table share (source, source_id);
\* no row a save pass adds has the identity of a row before it, and when the pass
\* returns, each candidate repeating a known identity is among the duplicates the
\* SourceRun counts.
C22_SameSourceIdentity ==
  /\ [](\A i, j \in DOMAIN jobs :
          (jobs[i].source = jobs[j].source /\ jobs[i].source_id = jobs[j].source_id)
            => i = j)
  /\ [][SaveStep =>
          /\ \A i \in (Len(jobs) + 1)..Len(jobs') :
               <<jobs'[i].source, jobs'[i].source_id>>
                 \notin Identities(SubSeq(jobs', 1, i - 1))
          /\ pc'[Orch] = "saved" =>
               \A s \in SeqToSet(Successful) :
                 srcRuns'[s].jobs_duplicate
                   >= Cardinality(KnownCandidates(s, jobs, jobs'))]_vars

\* in the second run B's posting j2, stored before the first run, and A's posting
\* j2, persisted by the first run, were both counted duplicate and not added again
C22_Witness ==
  /\ Len(runs) = 2 /\ pc[Orch] = "saved"
  /\ sources = <<"A", "B">>
  /\ results["A"].jobs_data = <<Posting("j2", NoUrl, TRUE), Posting("j2", NoUrl, TRUE)>>
  /\ results["B"].jobs_data = <<Posting("j2", NoUrl, TRUE)>>
  /\ jobs = <<JobRow("A", "j1", "u1"), JobRow("B", "j2", NoUrl), JobRow("A", "j2", NoUrl)>>
  /\ srcRuns["A"].jobs_duplicate = 2
  /\ srcRuns["B"].jobs_duplicate = 1

\* C23: when a save pass processes a successful source whose postings all have
\* identities the store already holds, it adds no row of that source, and if the
\* pass returns the SourceRun has jobs_new = 0 and every posting counted duplicate;
\* when this is so for every successful source, the jobs table is left as it was.
C23_Idempotence ==
  [][SaveStep =>
      LET Known(s) == \A i \in DOMAIN results[s].jobs_data :
                        results[s].jobs_data[i].source_id \in ExistingSourceIds(jobs, s)
      IN /\ \A s \in SeqToSet(Successful) :
              Known(s) =>
                /\ \A i \in (Len(jobs) + 1)..Len(jobs') : jobs'[i].source # s
                /\ pc'[Orch] = "saved" =>
                     /\ srcRuns'[s].jobs_new = 0
                     /\ srcRuns'[s].jobs_failed = 0
                     /\ srcRuns'[s].jobs_duplicate = Len(results[s].jobs_data)
         /\ (\A s \in SeqToSet(Successful) : Known(s)) => jobs' = jobs]_vars

\* the first run persisted three Jobs of A; the second run, given the same three
\* postings, counted three duplicates and left the table as it was
C23_Witness ==
  /\ Len(runs) = 2 /\ pc[Orch] = "saved"
  /\ sources = <<"A">>
  /\ results["A"].jobs_data
       = <<Posting("j1", "u1", TRUE), Posting("j2", NoUrl, TRUE), Posting("j3", "u2", TRUE)>>
  /\ runs[1].phase = "matching"
  /\ jobs = <<JobRow("A", "j1", "u1"), JobRow("A", "j2", NoUrl), JobRow("A", "j3", "u2")>>
  /\ srcRuns["A"].jobs_new = 0
  /\ srcRuns["A"].jobs_duplicate = 3
  /\ runStats.new = 0

\* C27: an invocation whose _execute_scraping raised after its tasks were launched
\* (in the save pass, the matching stage or a phase transition) has left its Run
\* failed, with completed_at and an error message; on the scrape_and_save_jobs
\* path it has released the lock by the time it raises to its caller.
C27_EscapeFailsRun ==
  \A p \in Procs :
    (/\ myRun[p] # 0 /\ launched[p]
     /\ outcome[p] \notin {"none", "ok"}
     /\ pc[p] \in {"release", "raised"})
    => /\ runs[myRun[p]].status = "failed"
       /\ runs[myRun[p]].completed_at # NULL
       /\ runs[myRun[p]].error_message # NoError
       /\ (path[p] = "sched" /\ pc[p] = "raised") => unlocked[p]

\* the stages of an attempt before its Run exists
Acquiring == {"idle", "acq_try", "acq_check", "acq_term", "acq_retry", "dblcheck", "create"}

C31_SeenOnlyIfPersisted ==
  [][(SaveStep /\ pc'[Orch] = "saved") =>
      \A s \in SeqToSet(Successful) :
        \A i \in DOMAIN results[s].jobs_data :
          LET jd == results[s].jobs_data[i]
          IN (/\ jd.valid /\ jd.resolved_url # NoUrl
              /\ i \notin KnownCandidates(s, jobs, jobs'))
             => jd.resolved_url \in ExistingResolvedUrls(jobs')]_vars

\* the orchestrator is past the join barrier
PastBarrier ==
  pc[Orch] \in {"saving", "saved", "matching", "finalize", "release", "returned", "raised"}

C33_FailedSourcesSkipped ==
  [][SaveStep =>
      /\ \A s \in SeqToSet(sources) :
           IF ~results[s].success
             THEN /\ srcRuns'[s] = srcRuns[s]
                  /\ srcRuns'[s].status = "failed"
                  /\ \A i \in (Len(jobs) + 1)..Len(jobs') : jobs'[i].source # s
                  /\ \A i \in DOMAIN runLog' : runLog'[i][2] = s => runLog'[i][1] = s
             ELSE /\ srcRuns'[s].status = "completed"
                  /\ [srcRuns'[s] EXCEPT !.jobs_new = 0, !.jobs_duplicate = 0,
                                         !.jobs_failed = 0, !.log = <<>>]
                       = [srcRuns[s] EXCEPT !.log = <<>>]
      /\ (Successful = <<>> /\ pc'[Orch] = "saved") =>
           /\ jobs' = jobs
           /\ runStats'.total = 0 /\ runStats'.new = 0
           /\ runStats'.duplicate = 0 /\ runStats'.failed = 0]_vars

\* the pass returned: A's SourceRun is failed with zero counts, B's postings were
\* counted and the totals are B's alone
C33_Witness ==
  /\ pc[Orch] = "saved"
  /\ sources = <<"A", "B">>
  /\ srcRuns["A"].status = "failed" /\ srcRuns["A"].error_message = "scrape_error"
  /\ srcRuns["A"].jobs_new = 0 /\ srcRuns["A"].jobs_found = 0
  /\ srcRuns["B"].status = "completed" /\ srcRuns["B"].jobs_new = 2
  /\ runStats.total = results["B"].jobs_found /\ runStats.new = 2
  /\ runStats.sources_failed = 1

\* the postings of s that can, or cannot, be built into a Job
Buildable(s, ok) ==
  {i \in DOMAIN results[s].jobs_data : results[s].jobs_data[i].valid = ok}

\* C34: when the save pass returns, a source's jobs_failed counts only postings
\* that cannot be built, at most once each, and every posting that can be built
\* was counted new or duplicate, whatever failed before it in the same or in an
\* earlier source; a posting that cannot be built and that no check stops, first in
\* the pass, makes jobs_failed of its source 1; a run that returns after postings failed is completed or
\* partial by its failed sources alone.
C34_PostingIsolation ==
  /\ [][(SaveStep /\ pc'[Orch] = "saved") =>
          \A s \in SeqToSet(Successful) :
            /\ srcRuns'[s].jobs_failed <= Cardinality(Buildable(s, FALSE))
            /\ srcRuns'[s].jobs_new + srcRuns'[s].jobs_duplicate
                 >= Cardinality(Buildable(s, TRUE))
            /\ (/\ s = Successful[1]
                 /\ results[s].jobs_data # <<>> /\ ~results[s].jobs_data[1].valid
                 /\ results[s].jobs_data[1].source_id \notin ExistingSourceIds(jobs, s)
                 /\ results[s].jobs_data[1].resolved_url \notin ExistingResolvedUrls(jobs))
                => srcRuns'[s].jobs_failed = 1]_vars
  /\ []((pc[Orch] = "returned" /\ runStats.failed > 0) =>
          runs[myRun[Orch]].status
            = (IF runStats.sources_failed = 0 THEN "completed" ELSE "partial"))

\* A's first posting failed and its second was persisted, B's posting was
\* persisted after it, and the Run ended completed
C34_Witness ==
  /\ pc[Orch] = "returned"
  /\ sources = <<"A", "B">>
  /\ results["A"].jobs_data = <<Posting("j4", "u2", FALSE), Posting("j1", "u1", TRUE)>>
  /\ results["B"].jobs_data = <<Posting("j2", NoUrl, TRUE)>>
  /\ srcRuns["A"].jobs_failed = 1 /\ srcRuns["A"].jobs_new = 1
  /\ srcRuns["B"].jobs_new = 1
  /\ jobs = <<JobRow("A", "j1", "u1"), JobRow("B", "j2", NoUrl)>>
  /\ runs[myRun[Orch]].status = "completed"

\* a Run with the three columns the Reaper writes blanked
ReaperBlind(run) ==
  [run EXCEPT !.status = "any", !.completed_at = NULL, !.error_message = NoError]

\* C35: a cleanup_stale_runs step changes no Run other than the stale ones and of
\* those only status, completed_at and error_message; it leaves the lock, the
\* sessions, the position of every other invocation (its tasks included), the
\* SourceRuns, the Jobs and the Run's log as they were.
C35_ReaperFrame ==
  [][\A p \in Procs :
       (pc[p] = "idle" /\ pc'[p] = "acq_try") =>
         /\ DOMAIN runs' = DOMAIN runs
         /\ \A r \in DOMAIN runs :
              /\ ReaperBlind(runs'[r]) = ReaperBlind(runs[r])
              /\ runs'[r] # runs[r] => IsStale(r)
         /\ lockHolders' = lockHolders
         /\ sessAlive' = sessAlive
         /\ \A q \in Procs \ {p} : pc'[q] = pc[q] /\ launched'[q] = launched[q]
         /\ myRun' = myRun
         /\ pipeVars' = pipeVars]_vars

\* the Run of an invocation whose tasks are still in flight was reaped: the
\* invocation is where it was, still holding the lock, the Run's phase unchanged
C35_Witness ==
  \E p, q \in Procs :
    /\ p # q /\ reaped[q] >= 1
    /\ pc[p] = "scraping" /\ launched[p] /\ sessAlive[p] /\ p \in lockHolders
    /\ runs[myRun[p]].status = "failed" /\ runs[myRun[p]].error_message = "timeout"
    /\ runs[myRun[p]].phase = "scraping"

\* C36: a Run's phase changes only from scraping to matching, and only while the
\* Run's status is running; it is never applying or reporting; and the Run of the
\* invocation followed in detail has phase matching only if its own save pass
\* persisted a Job.
C36_PhaseMachine ==
  /\ [][\A r \in DOMAIN runs :
          runs'[r].phase # runs[r].phase =>
            /\ runs[r].phase = "scraping" /\ runs'[r].phase = "matching"
            /\ runs[r].status = "running"]_vars
  /\ [](\A r \in DOMAIN runs : runs[r].phase \in {"scraping", "matching"})
  /\ [](runs[myRun[Orch]].phase = "matching" =>
          srcRuns["A"].jobs_new + srcRuns["B"].jobs_new > 0)

\* C37: the scheduler's job calls the pipeline again only after an error of the
\* database connection, and at most MAX_RETRIES = 2 times, so that one firing makes
\* at most 3 attempts; after a ValueError (no profile, no sources, lock refused, a
\* run in progress), any other error or a normal return it ends without another
\* attempt, and nothing is raised to the scheduler.
C37_BoundedRetry ==
  /\ [][\A p \in Procs :
          /\ retry_count'[p] # retry_count[p] =>
               /\ retry_count'[p] = retry_count[p] + 1
               /\ pc[p] = "raised" /\ outcome[p] = "conn_error"
               /\ pc'[p] = "idle"
          /\ (pc[p] \in {"returned", "raised"} /\ outcome[p] # "conn_error") =>
               pc'[p] \in {pc[p], "sched_done"}
          /\ (pc[p] = "raised" /\ outcome[p] = "conn_error" /\ retry_count[p] = 2) =>
               pc'[p] \in {pc[p], "sched_done"}
          /\ pc[p] = "sched_done" => pc'[p] = "sched_done"]_vars
  /\ [](\A p \in Procs : retry_count[p] + 1 <= 3 /\ pc[p] # "sched_raised")

\* a third attempt lost its connection too and the job ended without a fourth
C37_Witness ==
  \E p \in Firings :
    /\ pc[p] = "sched_done" /\ outcome[p] = "conn_error" /\ retry_count[p] = 2

====
